---- MODULE Spec2Model ----
(***************************************************************************)
(* Model of the Flex container of react-three-flex (src/src/Flex.tsx):     *)
(* the box registry (registerBox / unregisterBox), the dirty flag and the  *)
(* per-frame check (requestReflow / useFrame), and the reflow procedure    *)
(* (size recalculation, solver call, repositioning, onReflow).             *)
(*                                                                         *)
(* Numbers that the code divides (positions, reported totals) are exact    *)
(* rationals [n, d] in lowest terms; solver units are integers.            *)
(***************************************************************************)
EXTENDS Integers, Sequences, FiniteSets, TLC

\* ---------------------------------------------------------------- bounds
MaxDim == 1         \* numeric flexProps.width / height values 0..MaxDim
MaxRequests == 2    \* requestReflow() calls counted between two frames

\* scaleFactor = 100 (default prop value)
DefaultScaleFactor == 100

\* ------------------------------------------------------- sampled inputs
Root == "root"                  \* the container's own Yoga node
NodeIds == {"n1", "n2"}         \* Yoga nodes of boxes (identities)
Groups == {"g1", "g2"}          \* THREE.Group objects of boxes (identities)
Axes == {"x", "y", "z"}
\* a plane is the pair <<plane[0], plane[1]>> of its axis letters
Planes == {<<"x", "y">>, <<"y", "z">>, <<"x", "z">>}
\* canonical flex props of the container that the model varies (the numbers
\* are in caller units, before the scale factor)
ContainerFlexProps ==
    {[flexDirection |-> "row", padding |-> 0],
     [flexDirection |-> "column", padding |-> 0],
     [flexDirection |-> "column", padding |-> 1]}
\* the bounding extent of each group's content, as a measurement returns it
ContentExtent == [g \in Groups |-> IF g = "g1" THEN [x |-> 3, y |-> 2, z |-> 1]
                                               ELSE [x |-> 0, y |-> 1, z |-> 2]]

\* ------------------------------------------------------- exact rationals
Abs(i) == IF i < 0 THEN -i ELSE i

RECURSIVE GCD(_, _)
GCD(a, b) == IF b = 0 THEN a ELSE GCD(b, a % b)

\* n / d in lowest terms, d > 0
Rat(n, d) ==
    LET g == GCD(Abs(n), Abs(d))
        s == IF d < 0 THEN -1 ELSE 1
    IN  [n |-> (s * n) \div g, d |-> (s * d) \div g]

RInt(i) == [n |-> i, d |-> 1]
RAdd(a, b) == Rat(a.n * b.d + b.n * a.d, a.d * b.d)
RNeg(a) == [n |-> -a.n, d |-> a.d]
RDiv(a, k) == Rat(a.n, a.d * k)
RLess(a, b) == a.n * b.d < b.n * a.d
RZero == RInt(0)

\* ------------------------------------------------ flexProps width/height
\* A width/height entry of R3FlexProps: undefined, a number, or a
\* solver-native string token (a percentage).
Undef == [t |-> "undef", v |-> 0]
Num(k) == [t |-> "num", v |-> k]
Pct(k) == [t |-> "pct", v |-> k]
DimValues == {Undef, Pct(100)} \cup {Num(k) : k \in 0..MaxDim}
FlexPropsSet == [width : DimValues, height : DimValues]

\* BoxesItem
BoxesItem(node, group, flexProps, centerAnchor) ==
    [node |-> node, group |-> group, flexProps |-> flexProps, centerAnchor |-> centerAnchor]

VARIABLES
    boxes,        \* boxesRef.current : sequence of BoxesItem
    call,         \* the last registry call: its name, whether findIndex found the
                  \* node, the value it returned, and whether it was made while
                  \* reflow() was running
    dirty,        \* dirtyRef.current
    invalidated,  \* the host has been asked for a frame (invalidate()) and has not run it yet
    requests,     \* requestReflow() calls since the last frame
    served,       \* requestReflow() calls that preceded the last frame
    runs,         \* number of reflow() runs in the last frame
    cfg,          \* props of the container
    childrenKey,  \* identity of the container's children prop
    tree,         \* solver tree: node -> sequence of child nodes
    nodeW, nodeH, \* width / height set on each solver node
    layout,       \* computed layout of each solver node
    extent,       \* bounding extent of each group's content
    position,     \* group.position of each group
    measured,     \* nodes whose group was measured by the last reflow
    notified,     \* onReflow invocations in the last frame
    reported,     \* arguments of the last onReflow invocation
    reqDuring,    \* requestReflow() was called by onReflow during the last reflow
    stable        \* reflow() runs since the registry or the props last changed:
                  \* 0, 1, or 2 for two or more

vars == <<boxes, call, dirty, invalidated, requests, served, runs, cfg, childrenKey, tree,
          nodeW, nodeH, layout, extent, position, measured, notified, reported, reqDuring,
          stable>>

\* ------------------------------------------------------------- registry
\* Array.prototype.findIndex((b) => b.node === node): 0-based index, -1 if none
FindIndex(bs, node) ==
    IF \E k \in 1..Len(bs) : bs[k].node = node
    THEN (CHOOSE k \in 1..Len(bs) :
            /\ bs[k].node = node
            /\ \A j \in 1..(k - 1) : bs[j].node # node) - 1
    ELSE -1

\* Array.prototype.splice(i, 1), i 0-based
Splice(bs, i) == SubSeq(bs, 1, i) \o SubSeq(bs, i + 2, Len(bs))

\* registerBox with the update branch dropped: an existing record is kept as it is
registerBoxNoReplace(bs, node, group, flexProps, centerAnchor) ==
    LET i == FindIndex(bs, node)
        boxItem == BoxesItem(node, group, flexProps, centerAnchor)
    IN  IF i # -1
        THEN [boxes |-> bs, ret |-> FALSE]
        ELSE [boxes |-> Append(bs, boxItem), ret |-> TRUE]

\* registerBox without the findIndex test: every call pushes a record
registerBoxAlwaysPush(bs, node, group, flexProps, centerAnchor) ==
    [boxes |-> Append(bs, BoxesItem(node, group, flexProps, centerAnchor)),
     ret |-> FindIndex(bs, node) = -1]

\* registerBox: the registry after the call and the value returned
registerBox(bs, node, group, flexProps, centerAnchor) ==
    LET i == FindIndex(bs, node)
        boxItem == BoxesItem(node, group, flexProps, centerAnchor)
    IN  IF i # -1
        THEN [boxes |-> [bs EXCEPT ![i + 1] = boxItem], ret |-> FALSE]
        ELSE [boxes |-> Append(bs, boxItem), ret |-> TRUE]

\* unregisterBox without the i !== -1 test: splice(-1, 1) removes the last record
unregisterBoxUnguarded(bs, node) ==
    LET i == FindIndex(bs, node)
    IN  IF i # -1 THEN Splice(bs, i) ELSE SubSeq(bs, 1, Len(bs) - 1)

\* unregisterBox filling the hole with the last record instead of splicing
unregisterBoxSwapRemove(bs, node) ==
    LET i == FindIndex(bs, node)
        front == SubSeq(bs, 1, Len(bs) - 1)
    IN  IF i = -1 THEN bs
        ELSE IF i + 1 = Len(bs) THEN front
        ELSE [front EXCEPT ![i + 1] = bs[Len(bs)]]

\* unregisterBox: the registry after the call
unregisterBox(bs, node) ==
    LET i == FindIndex(bs, node)
    IN  IF i # -1 THEN Splice(bs, i) ELSE bs

\* ------------------------------------------------------- plane and axes
mainAxis(plane) == plane[1]
crossAxis(plane) == plane[2]
getDepthAxis(plane) == CHOOSE a \in Axes : a # plane[1] /\ a # plane[2]
getFlex2DSize(size, plane) == <<size[plane[1]], size[plane[2]]>>

\* new Vector3 from an object literal {[mainAxis]: m, [crossAxis]: c, [depthAxis]: d}
\* (a later key overrides an earlier equal one)
vectorFromObject(plane, m, c, d) ==
    LET v0 == [a \in Axes |-> RZero]
        v1 == [v0 EXCEPT ![mainAxis(plane)] = m]
        v2 == [v1 EXCEPT ![crossAxis(plane)] = c]
    IN  [v2 EXCEPT ![getDepthAxis(plane)] = d]

\* getRootShift(rootCenterAnchor, rootWidth, rootHeight, node)
getRootShift(rootCenterAnchor, rootWidth, rootHeight) ==
    IF rootCenterAnchor
    THEN <<RNeg(RDiv(RInt(rootWidth), 2)), RNeg(RDiv(RInt(rootHeight), 2))>>
    ELSE <<RZero, RZero>>

\* ------------------------------------------------- reflow: size recalc
\* typeof v === 'number' ? v * scaleFactor : v
Scaled(v, scaleFactor) == IF v.t = "num" THEN Num(v.v * scaleFactor) ELSE v

\* JavaScript truthiness of a width/height value (undefined and 0 are falsy)
Truthy(v) == ~(v.t = "undef" \/ (v.t = "num" /\ v.v = 0))

\* the size pass without its forced-size branch: every leaf is measured
SizeOneNoForced(b, st, c, tr, ext) ==
    LET scaledWidth == Scaled(b.flexProps.width, c.scaleFactor)
        scaledHeight == Scaled(b.flexProps.height, c.scaleFactor)
        vec == ext[b.group]
    IN  IF Len(tr[b.node]) = 0
        THEN [nodeW |-> [st.nodeW EXCEPT ![b.node] =
                            IF Truthy(scaledWidth) THEN scaledWidth
                            ELSE Num(vec[mainAxis(c.plane)] * c.scaleFactor)],
              nodeH |-> [st.nodeH EXCEPT ![b.node] =
                            IF Truthy(scaledHeight) THEN scaledHeight
                            ELSE Num(vec[crossAxis(c.plane)] * c.scaleFactor)],
              measured |-> st.measured \cup {b.node}]
        ELSE st

\* the size pass with the measured main and cross extents exchanged
SizeOneSwappedAxes(b, st, c, tr, ext) ==
    LET scaledWidth == Scaled(b.flexProps.width, c.scaleFactor)
        scaledHeight == Scaled(b.flexProps.height, c.scaleFactor)
        vec == ext[b.group]
    IN  IF scaledWidth # Undef /\ scaledHeight # Undef
        THEN [st EXCEPT !.nodeW[b.node] = scaledWidth,
                        !.nodeH[b.node] = scaledHeight]
        ELSE IF Len(tr[b.node]) = 0
        THEN [nodeW |-> [st.nodeW EXCEPT ![b.node] =
                            IF Truthy(scaledWidth) THEN scaledWidth
                            ELSE Num(vec[crossAxis(c.plane)] * c.scaleFactor)],
              nodeH |-> [st.nodeH EXCEPT ![b.node] =
                            IF Truthy(scaledHeight) THEN scaledHeight
                            ELSE Num(vec[mainAxis(c.plane)] * c.scaleFactor)],
              measured |-> st.measured \cup {b.node}]
        ELSE st

\* the size pass without the getChildCount() === 0 test: boxes with layout
\* children are measured too
SizeOneNoChildCount(b, st, c, tr, ext) ==
    LET scaledWidth == Scaled(b.flexProps.width, c.scaleFactor)
        scaledHeight == Scaled(b.flexProps.height, c.scaleFactor)
        vec == ext[b.group]
    IN  IF scaledWidth # Undef /\ scaledHeight # Undef
        THEN [st EXCEPT !.nodeW[b.node] = scaledWidth,
                        !.nodeH[b.node] = scaledHeight]
        ELSE [nodeW |-> [st.nodeW EXCEPT ![b.node] =
                            IF Truthy(scaledWidth) THEN scaledWidth
                            ELSE Num(vec[mainAxis(c.plane)] * c.scaleFactor)],
              nodeH |-> [st.nodeH EXCEPT ![b.node] =
                            IF Truthy(scaledHeight) THEN scaledHeight
                            ELSE Num(vec[crossAxis(c.plane)] * c.scaleFactor)],
              measured |-> st.measured \cup {b.node}]

\* the body of the first boxesRef.current.forEach, for one box;
\* st = [nodeW, nodeH, measured]
SizeOne(b, st, c, tr, ext) ==
    LET scaledWidth == Scaled(b.flexProps.width, c.scaleFactor)
        scaledHeight == Scaled(b.flexProps.height, c.scaleFactor)
        vec == ext[b.group]
    IN  IF scaledWidth # Undef /\ scaledHeight # Undef
        THEN [st EXCEPT !.nodeW[b.node] = scaledWidth,
                        !.nodeH[b.node] = scaledHeight]
        ELSE IF Len(tr[b.node]) = 0
        THEN [nodeW |-> [st.nodeW EXCEPT ![b.node] =
                            IF Truthy(scaledWidth) THEN scaledWidth
                            ELSE Num(vec[mainAxis(c.plane)] * c.scaleFactor)],
              nodeH |-> [st.nodeH EXCEPT ![b.node] =
                            IF Truthy(scaledHeight) THEN scaledHeight
                            ELSE Num(vec[crossAxis(c.plane)] * c.scaleFactor)],
              measured |-> st.measured \cup {b.node}]
        ELSE st

RECURSIVE SizePass(_, _, _, _, _, _)
SizePass(bs, k, st, c, tr, ext) ==
    IF k > Len(bs) THEN st
    ELSE SizePass(bs, k + 1, SizeOne(bs[k], st, c, tr, ext), c, tr, ext)

\* the size pass run whatever disableSizeRecalc says
RecalcSizesAlways(bs, c, tr, ext, nW, nH) ==
    SizePass(bs, 1, [nodeW |-> nW, nodeH |-> nH, measured |-> {}], c, tr, ext)

\* if (!disableSizeRecalc) { boxesRef.current.forEach(...) }
RecalcSizes(bs, c, tr, ext, nW, nH) ==
    LET st0 == [nodeW |-> nW, nodeH |-> nH, measured |-> {}]
    IN  IF ~c.disableSizeRecalc THEN SizePass(bs, 1, st0, c, tr, ext) ELSE st0

\* --------------------------------------------------- the external solver
\* A deterministic stand-in for Yoga's calculateLayout with Yoga's defaults:
\* no wrapping, no shrinking, start alignment on the main axis, stretch on
\* the cross axis; boxes lay their own children out in a column.
Max2(a, b) == IF a < b THEN b ELSE a

RECURSIVE AutoW(_, _, _), AutoH(_, _, _), MaxW(_, _, _, _), SumH(_, _, _, _)
IntrinsicW(n, tr, nW) == IF nW[n].t = "num" THEN nW[n].v ELSE AutoW(n, tr, nW)
IntrinsicH(n, tr, nH) == IF nH[n].t = "num" THEN nH[n].v ELSE AutoH(n, tr, nH)
MaxW(kids, k, tr, nW) ==
    IF k > Len(kids) THEN 0
    ELSE Max2(IntrinsicW(kids[k], tr, nW), MaxW(kids, k + 1, tr, nW))
SumH(kids, k, tr, nH) ==
    IF k > Len(kids) THEN 0
    ELSE IntrinsicH(kids[k], tr, nH) + SumH(kids, k + 1, tr, nH)
AutoW(n, tr, nW) == MaxW(tr[n], 1, tr, nW)
AutoH(n, tr, nH) == SumH(tr[n], 1, tr, nH)

ChildW(n, pw, pdir, tr, nW) ==
    CASE nW[n].t = "num" -> nW[n].v
      [] nW[n].t = "pct" -> (pw * nW[n].v) \div 100
      [] OTHER -> IF pdir = "column" THEN pw ELSE AutoW(n, tr, nW)

ChildH(n, ph, pdir, tr, nH) ==
    CASE nH[n].t = "num" -> nH[n].v
      [] nH[n].t = "pct" -> (ph * nH[n].v) \div 100
      [] OTHER -> IF pdir = "row" THEN ph ELSE AutoH(n, tr, nH)

RECURSIVE Place(_, _, _, _, _, _, _, _, _, _)
Place(kids, k, off, pw, ph, pdir, tr, nW, nH, lay) ==
    IF k > Len(kids) THEN lay
    ELSE LET n == kids[k]
             w == ChildW(n, pw, pdir, tr, nW)
             h == ChildH(n, ph, pdir, tr, nH)
             lay1 == [lay EXCEPT ![n] =
                        [left |-> IF pdir = "row" THEN off ELSE 0,
                         top |-> IF pdir = "column" THEN off ELSE 0,
                         width |-> w, height |-> h]]
             lay2 == Place(tr[n], 1, 0, w, h, "column", tr, nW, nH, lay1)
         IN  Place(kids, k + 1, off + (IF pdir = "row" THEN w ELSE h),
                   pw, ph, pdir, tr, nW, nH, lay2)

\* node.calculateLayout(width, height, direction) on the container's node,
\* whose flexDirection and padding setYogaProperties has set
calculateLayout(width, height, dir, padding, tr, nW, nH, lay) ==
    LET lay0 == [lay EXCEPT ![Root] =
                    [left |-> 0, top |-> 0, width |-> width, height |-> height]]
        inner(v) == Max2(v - 2 * padding, 0)
        kids == Place(tr[Root], 1, 0, inner(width), inner(height), dir, tr, nW, nH, lay0)
    IN  [n \in DOMAIN kids |->
            IF \E k \in 1..Len(tr[Root]) : tr[Root][k] = n
            THEN [kids[n] EXCEPT !.left = @ + padding, !.top = @ + padding]
            ELSE kids[n]]

\* ---------------------------------------------------- reflow: reposition
Min2(a, b) == IF b < a THEN b ELSE a

\* the position with the cross-axis coordinate not negated
BoxPositionNoFlip(b, l, c, rootWidth, rootHeight) ==
    LET shift == getRootShift(c.centerAnchor, rootWidth, rootHeight)
        m == RDiv(RAdd(RAdd(shift[1], RInt(l.left)),
                       IF b.centerAnchor THEN RDiv(RInt(l.width), 2) ELSE RZero),
                  c.scaleFactor)
        x == RDiv(RAdd(RAdd(shift[2], RInt(l.top)),
                       IF b.centerAnchor THEN RDiv(RInt(l.height), 2) ELSE RZero),
                  c.scaleFactor)
    IN  vectorFromObject(c.plane, m, x, RZero)

\* the position with the center anchor offset by the whole width / height
BoxPositionFullExtent(b, l, c, rootWidth, rootHeight) ==
    LET shift == getRootShift(c.centerAnchor, rootWidth, rootHeight)
        m == RDiv(RAdd(RAdd(shift[1], RInt(l.left)),
                       IF b.centerAnchor THEN RInt(l.width) ELSE RZero),
                  c.scaleFactor)
        x == RDiv(RNeg(RAdd(RAdd(shift[2], RInt(l.top)),
                            IF b.centerAnchor THEN RInt(l.height) ELSE RZero)),
                  c.scaleFactor)
    IN  vectorFromObject(c.plane, m, x, RZero)

\* the position written for one box (vectorFromObject({...}))
BoxPosition(b, l, c, rootWidth, rootHeight) ==
    LET shift == getRootShift(c.centerAnchor, rootWidth, rootHeight)
        mainAxisShift == shift[1]
        crossAxisShift == shift[2]
        m == RDiv(RAdd(RAdd(mainAxisShift, RInt(l.left)),
                       IF b.centerAnchor THEN RDiv(RInt(l.width), 2) ELSE RZero),
                  c.scaleFactor)
        x == RDiv(RNeg(RAdd(RAdd(crossAxisShift, RInt(l.top)),
                            IF b.centerAnchor THEN RDiv(RInt(l.height), 2) ELSE RZero)),
                  c.scaleFactor)
    IN  vectorFromObject(c.plane, m, x, RZero)

\* the reposition step with group.position.add(position) for copy(position)
PlaceOneAdd(b, st, c, lay, rootWidth, rootHeight) ==
    LET l == lay[b.node]
        p == BoxPosition(b, l, c, rootWidth, rootHeight)
    IN  [position |-> [st.position EXCEPT ![b.group] =
                          [a \in Axes |-> RAdd(st.position[b.group][a], p[a])]],
         minX |-> IF l.left < st.minX THEN l.left ELSE st.minX,
         minY |-> IF l.top < st.minY THEN l.top ELSE st.minY,
         maxX |-> IF st.maxX < l.left + l.width THEN l.left + l.width ELSE st.maxX,
         maxY |-> IF st.maxY < l.top + l.height THEN l.top + l.height ELSE st.maxY]

\* the body of the second boxesRef.current.forEach, for one box;
\* st = [position, minX, maxX, minY, maxY]
PlaceOne(b, st, c, lay, rootWidth, rootHeight) ==
    LET l == lay[b.node]
    IN  [position |-> [st.position EXCEPT ![b.group] =
                          BoxPosition(b, l, c, rootWidth, rootHeight)],
         minX |-> Min2(st.minX, l.left),
         minY |-> Min2(st.minY, l.top),
         maxX |-> Max2(st.maxX, l.left + l.width),
         maxY |-> Max2(st.maxY, l.top + l.height)]

RECURSIVE Reposition(_, _, _, _, _, _, _)
Reposition(bs, k, st, c, lay, rootWidth, rootHeight) ==
    IF k > Len(bs) THEN st
    ELSE Reposition(bs, k + 1, PlaceOne(bs[k], st, c, lay, rootWidth, rootHeight),
                    c, lay, rootWidth, rootHeight)

\* the arguments handed to onReflow
ReflowTotals(st, scaleFactor) ==
    <<RDiv(RInt(st.maxX - st.minX), scaleFactor),
      RDiv(RInt(st.maxY - st.minY), scaleFactor)>>

\* boxesRef.current.forEach: the nodes in the order the passes visit them
VisitOrder(bs) == [k \in 1..Len(bs) |-> bs[k].node]

\* function reflow(): everything it writes, as one record
reflow(bs, c, tr, ext, nW, nH, lay, pos) ==
    LET sized == RecalcSizes(bs, c, tr, ext, nW, nH)
        flex == getFlex2DSize(c.size, c.plane)
        solved == calculateLayout(flex[1] * c.scaleFactor, flex[2] * c.scaleFactor,
                                  c.flexProps.flexDirection,
                                  c.flexProps.padding * c.scaleFactor,
                                  tr, sized.nodeW, sized.nodeH, lay)
        rootWidth == solved[Root].width
        rootHeight == solved[Root].height
        placed == Reposition(bs, 1,
                             [position |-> pos, minX |-> 0, maxX |-> 0,
                              minY |-> 0, maxY |-> 0],
                             c, solved, rootWidth, rootHeight)
    IN  [nodeW |-> sized.nodeW, nodeH |-> sized.nodeH, measured |-> sized.measured,
         layout |-> solved, position |-> placed.position,
         totals |-> ReflowTotals(placed, c.scaleFactor)]

\* ----------------------------------------------------------------- state
\* props of the container that the model varies
Configs ==
    [plane : Planes, scaleFactor : {DefaultScaleFactor}, size : {[x |-> 2, y |-> 1, z |-> 3]},
     centerAnchor : BOOLEAN, disableSizeRecalc : BOOLEAN, hasOnReflow : BOOLEAN,
     flexProps : ContainerFlexProps]

ZeroLayout == [left |-> 0, top |-> 0, width |-> 0, height |-> 0]
ZeroVector == [a \in Axes |-> RZero]

\* everything but cfg, boxes, tree and extent, as it is once the container is
\* mounted: dirtyRef starts true and the mount effect has called requestReflow()
InitRest ==
    /\ call = [op |-> "none", found |-> FALSE, ret |-> "undefined", during |-> FALSE]
    /\ dirty = TRUE
    /\ invalidated = TRUE
    /\ requests = 1
    /\ served = 0
    /\ runs = 0
    /\ childrenKey = 0
    /\ nodeW = [n \in NodeIds |-> Undef]
    /\ nodeH = [n \in NodeIds |-> Undef]
    /\ layout = [n \in NodeIds \cup {Root} |-> ZeroLayout]
    /\ position = [g \in Groups |-> ZeroVector]
    /\ measured = {}
    /\ notified = 0
    /\ reported = <<>>
    /\ reqDuring = FALSE
    /\ stable = 0

\* ---------------------------------------------------------------- actions
\* a registerBox that also resets the position of the group it registers
RegisterBoxResettingPosition(node, group, flexProps, centerAnchor) ==
    LET r == registerBox(boxes, node, group, flexProps, centerAnchor)
    IN  /\ boxes' = r.boxes
        /\ call' = [op |-> "registerBox", found |-> FindIndex(boxes, node) # -1,
                    ret |-> IF r.ret THEN "true" ELSE "false", during |-> FALSE]
        /\ stable' = 0
        /\ position' = [position EXCEPT ![group] = [a \in Axes |-> RZero]]
        /\ UNCHANGED <<dirty, invalidated, requests, served, runs, cfg, childrenKey, tree,
                       nodeW, nodeH, layout, extent, measured, notified,
                       reported, reqDuring>>

\* registerBox(node, group, flexProps, centerAnchor)
RegisterBox(node, group, flexProps, centerAnchor) ==
    LET r == registerBox(boxes, node, group, flexProps, centerAnchor)
    IN  /\ boxes' = r.boxes
        /\ call' = [op |-> "registerBox", found |-> FindIndex(boxes, node) # -1,
                    ret |-> IF r.ret THEN "true" ELSE "false", during |-> FALSE]
        /\ stable' = 0
        /\ UNCHANGED <<dirty, invalidated, requests, served, runs, cfg, childrenKey, tree,
                       nodeW, nodeH, layout, extent, position, measured, notified,
                       reported, reqDuring>>

\* unregisterBox(node)
UnregisterBox(node) ==
    /\ boxes' = unregisterBox(boxes, node)
    /\ call' = [op |-> "unregisterBox", found |-> FindIndex(boxes, node) # -1,
                ret |-> "undefined", during |-> FALSE]
    /\ stable' = 0
    /\ UNCHANGED <<dirty, invalidated, requests, served, runs, cfg, childrenKey, tree,
                   nodeW, nodeH, layout, extent, position, measured, notified,
                   reported, reqDuring>>

\* requestReflow() without its invalidate() call
requestReflowNoInvalidate ==
    /\ requests < MaxRequests
    /\ dirty' = TRUE
    /\ invalidated' = invalidated
    /\ requests' = requests + 1

\* the body of requestReflow(): dirtyRef.current = true; invalidate()
requestReflow ==
    /\ requests < MaxRequests
    /\ dirty' = TRUE
    /\ invalidated' = TRUE
    /\ requests' = requests + 1

\* requestReflow() called by a box or by user code
RequestReflow ==
    /\ requestReflow
    /\ UNCHANGED <<boxes, call, served, runs, cfg, childrenKey, tree, nodeW, nodeH, layout,
                   extent, position, measured, notified, reported, reqDuring, stable>>

\* the layout effect with children missing from its dependency array
ContainerRenderPropsOnly(key, flexProps) ==
    /\ key # childrenKey \/ flexProps # cfg.flexProps
    /\ childrenKey' = key
    /\ cfg' = [cfg EXCEPT !.flexProps = flexProps]
    /\ IF flexProps # cfg.flexProps
       THEN requestReflow /\ stable' = 0
       ELSE UNCHANGED <<dirty, invalidated, requests, stable>>
    /\ UNCHANGED <<boxes, call, served, runs, tree, nodeW, nodeH, layout, extent, position,
                   measured, notified, reported, reqDuring>>

\* A render of the container in which the children prop or a flex prop has
\* changed: the layout effects run setYogaProperties on the container's node
\* and requestReflow().
ContainerRender(key, flexProps) ==
    /\ key # childrenKey \/ flexProps # cfg.flexProps
    /\ childrenKey' = key
    /\ cfg' = [cfg EXCEPT !.flexProps = flexProps]
    /\ requestReflow
    /\ stable' = 0
    /\ UNCHANGED <<boxes, call, served, runs, tree, nodeW, nodeH, layout, extent, position,
                   measured, notified, reported, reqDuring>>

\* the flag left set by a frame that ran reflow(), as if reflow's invalidate()
\* were a requestReflow()
DirtySetByInvalidate(d, requestedDuring) == d

\* the flag cleared after reflow() instead of before it
DirtyClearedAfterReflow(d, requestedDuring) == IF d THEN FALSE ELSE d

\* one reflow() per requestReflow() call instead of one per frame
RunsPerRequest(d, n) == IF d THEN n ELSE 0

\* useFrame: if (dirtyRef.current) { dirtyRef.current = false; reflow() }
\* The flag after the frame: cleared before reflow() runs, so a requestReflow()
\* made during reflow() (by onReflow) leaves it set.
DirtyAfterFrame(d, requestedDuring) == IF d THEN requestedDuring ELSE d

\* useFrame: the number of reflow() runs in a frame that starts with flag d
\* after n requestReflow() calls
RunsInFrame(d, n) == IF d THEN 1 ELSE 0

\* onReflow && onReflow(totalWidth, totalHeight): invocations per reflow() run
OnReflowCalls(hasOnReflow) == IF hasOnReflow THEN 1 ELSE 0

\* the group each box node wraps
GroupOf(node) == IF node = "n1" THEN "g1" ELSE "g2"

\* What the onReflow listener does to the registry while reflow() runs:
\* nothing, a registerBox call or an unregisterBox call.
ListenerOps ==
    {[op |-> "none", node |-> "n1"],
     [op |-> "registerBox", node |-> "n2"],
     [op |-> "unregisterBox", node |-> "n1"]}

\* the flexProps and centerAnchor a listener's registerBox call passes
ListenerItem(node) ==
    BoxesItem(node, GroupOf(node), [width |-> Undef, height |-> Undef], FALSE)

\* the registry after the listener's call
ListenerRegistry(bs, lop) ==
    CASE lop.op = "registerBox" ->
           registerBox(bs, lop.node, ListenerItem(lop.node).group,
                       ListenerItem(lop.node).flexProps,
                       ListenerItem(lop.node).centerAnchor).boxes
      [] lop.op = "unregisterBox" -> unregisterBox(bs, lop.node)
      [] OTHER -> bs

\* the two forEach passes reading the registry after the listener has run
BoxesAfterListener(atStart, afterListener) == afterListener

\* The records the two forEach passes of reflow() iterate: onReflow is called
\* after both passes, so they read the registry as it is when reflow() starts.
BoxesAtReflow(atStart, afterListener) == atStart

\* One frame of the host, the useFrame callback: the flag, the counters and
\* the registry. listenerRequests says that the onReflow listener calls
\* requestReflow() while reflow() runs, lop what it does to the registry.
FrameControl(listenerRequests, lop) ==
    LET run == dirty
        during == run /\ listenerRequests
        after == ListenerRegistry(boxes, lop)
    IN  /\ (listenerRequests \/ lop.op # "none") => (dirty /\ cfg.hasOnReflow)
        /\ dirty' = DirtyAfterFrame(dirty, during)
        /\ served' = requests
        /\ runs' = RunsInFrame(dirty, requests)
        /\ requests' = IF during THEN 1 ELSE 0
        /\ reqDuring' = during
        \* reflow() ends with invalidate()
        /\ invalidated' = run
        /\ boxes' = after
        /\ call' = IF lop.op = "none" THEN call
                   ELSE [op |-> lop.op, found |-> FindIndex(boxes, lop.node) # -1,
                         ret |-> IF lop.op = "unregisterBox" THEN "undefined"
                                 ELSE IF FindIndex(boxes, lop.node) # -1 THEN "false"
                                 ELSE "true",
                         during |-> TRUE]
        /\ stable' = IF ~run THEN stable
                     ELSE IF lop.op # "none" THEN 0
                     ELSE IF stable < 2 THEN stable + 1 ELSE stable
        /\ UNCHANGED <<cfg, childrenKey, tree, extent>>

\* One frame of the host: what reflow() writes, if the frame runs it
FrameReflow(lop) ==
    LET run == dirty
        after == ListenerRegistry(boxes, lop)
    IN  /\ IF run
           THEN \E r \in {reflow(BoxesAtReflow(boxes, after), cfg, tree, extent,
                                 nodeW, nodeH, layout, position)} :
                /\ nodeW' = r.nodeW
                /\ nodeH' = r.nodeH
                /\ layout' = r.layout
                /\ position' = r.position
                /\ measured' = r.measured
                /\ notified' = OnReflowCalls(cfg.hasOnReflow)
                /\ reported' = IF cfg.hasOnReflow THEN r.totals ELSE reported
           ELSE /\ measured' = {}
                /\ notified' = 0
                /\ UNCHANGED <<nodeW, nodeH, layout, position, reported>>

\* useFrame(() => { if (dirtyRef.current) { dirtyRef.current = false; reflow() } })
Frame(listenerRequests, lop) ==
    /\ FrameControl(listenerRequests, lop)
    /\ FrameReflow(lop)

\* a frame whose onReflow listener, if any, leaves the registry alone
Tick(listenerRequests) == Frame(listenerRequests, [op |-> "none", node |-> "n1"])

\* a frame that runs reflow() and whose onReflow listener calls registerBox or
\* unregisterBox
TickListenerCall(listenerRequests, lop) ==
    /\ lop.op # "none"
    /\ Frame(listenerRequests, lop)

\* ------------------------------------------------------- specifications
\* the (flexProps, centerAnchor) arguments boxes register with, in Spec
SpecArgs ==
    {[flexProps |-> [width |-> Undef, height |-> Undef], centerAnchor |-> FALSE],
     [flexProps |-> [width |-> Num(1), height |-> Num(1)], centerAnchor |-> TRUE]}

\* the flex props the container is rendered with in Spec
SpecContainerProps == {fp \in ContainerFlexProps : fp.flexDirection = "column"}

Init ==
    /\ InitRest
    /\ cfg \in {c \in Configs : /\ c.plane = <<"x", "y">>
                                /\ ~c.centerAnchor
                                /\ ~c.disableSizeRecalc
                                /\ c.hasOnReflow
                                /\ c.flexProps = [flexDirection |-> "column", padding |-> 0]}
    /\ boxes = <<>>
    /\ tree = [q \in NodeIds \cup {Root} |-> IF q = Root THEN <<"n1", "n2">> ELSE <<>>]
    /\ extent = ContentExtent

Next ==
    \/ \E node \in NodeIds, a \in SpecArgs :
          RegisterBox(node, GroupOf(node), a.flexProps, a.centerAnchor)
    \/ \E node \in NodeIds : UnregisterBox(node)
    \/ RequestReflow
    \/ \E key \in {0, 1}, flexProps \in SpecContainerProps : ContainerRender(key, flexProps)
    \/ \E listenerRequests \in BOOLEAN : Tick(listenerRequests)

Spec == Init /\ [][Next]_vars

\* Registrations, requests and frames whose onReflow listener may call
\* registerBox or unregisterBox while reflow() runs.
NextListener ==
    \/ \E node \in NodeIds, a \in SpecArgs :
          RegisterBox(node, GroupOf(node), a.flexProps, a.centerAnchor)
    \/ \E node \in NodeIds : UnregisterBox(node)
    \/ RequestReflow
    \/ \E listenerRequests \in BOOLEAN : Tick(listenerRequests)
    \/ \E listenerRequests \in BOOLEAN, lop \in ListenerOps :
          TickListenerCall(listenerRequests, lop)

SpecListener == Init /\ [][NextListener]_vars

\* Registry operations alone, with every combination of node, group and
\* centerAnchor and a sample of flexProps (registerBox stores them unread).
RegistryProps == {[width |-> d, height |-> Undef] : d \in DimValues}

NextRegistry ==
    \/ \E node \in NodeIds, group \in Groups, flexProps \in RegistryProps,
          centerAnchor \in BOOLEAN :
          RegisterBox(node, group, flexProps, centerAnchor)
    \/ \E node \in NodeIds : UnregisterBox(node)

SpecRegistry == Init /\ [][NextRegistry]_vars

\* Registry operations over three boxes, each with its own group arguments,
\* and the order in which the forEach passes of reflow() visit the records.
OrderNodes == NodeIds \cup {"n3"}

NextOrder ==
    \/ \E node \in OrderNodes, a \in SpecArgs :
          RegisterBox(node, GroupOf(node), a.flexProps, a.centerAnchor)
    \/ \E node \in OrderNodes : UnregisterBox(node)

SpecOrder == Init /\ [][NextOrder]_vars

\* The scheduler under a host that delivers every frame it was asked for:
\* requestReflow() calls, renders of the container, registrations of one box
\* and frames, whose listener may call requestReflow() again.
control == <<boxes, call, dirty, invalidated, requests, served, runs, cfg, childrenKey,
             tree, extent, reqDuring, stable>>

\* the host runs the useFrame callback because invalidate() asked for a frame
HostFrame ==
    /\ invalidated
    /\ \E listenerRequests \in BOOLEAN :
          FrameControl(listenerRequests, [op |-> "none", node |-> "n1"])

NextLive ==
    \/ RequestReflow
    \/ \E key \in {0, 1}, flexProps \in SpecContainerProps : ContainerRender(key, flexProps)
    \/ \E a \in SpecArgs : RegisterBox("n1", GroupOf("n1"), a.flexProps, a.centerAnchor)
    \/ \E listenerRequests \in BOOLEAN : Tick(listenerRequests)

SpecLive == Init /\ [][NextLive]_vars /\ WF_control(HostFrame)

\* Reflow over a fixed registry: box n1 registered with any flexProps and
\* centerAnchor, box n2 absent or registered after it, under every container
\* configuration.
LayoutBox1 ==
    {BoxesItem("n1", "g1", fp, ca) : fp \in FlexPropsSet, ca \in BOOLEAN}
LayoutBox2 ==
    {BoxesItem("n2", "g2", [width |-> Num(1), height |-> Undef], FALSE)}
LayoutRegistries ==
    {<<>>} \cup {<<a>> : a \in LayoutBox1}
           \cup {<<a, b>> : a \in LayoutBox1, b \in LayoutBox2}
LayoutTrees ==
    {[q \in NodeIds \cup {Root} |-> IF q = Root THEN <<"n1", "n2">> ELSE <<>>],
     [q \in NodeIds \cup {Root} |->
        IF q = Root THEN <<"n1">> ELSE IF q = "n1" THEN <<"n2">> ELSE <<>>]}

InitLayout ==
    /\ InitRest
    /\ cfg \in Configs
    /\ boxes \in LayoutRegistries
    /\ tree \in LayoutTrees
    /\ extent = ContentExtent

NextLayout ==
    \/ RequestReflow
    \/ \E listenerRequests \in BOOLEAN : Tick(listenerRequests)

SpecLayout == InitLayout /\ [][NextLayout]_vars

\* ------------------------------------------------------------ properties
AnyTick == \E listenerRequests \in BOOLEAN : Tick(listenerRequests)
\* the step is a frame, told by what a frame does to the flag, the counters
\* and the registry
FrameStep ==
    \E listenerRequests \in BOOLEAN, lop \in ListenerOps :
       FrameControl(listenerRequests, lop)
Registered(bs, node) == \E k \in 1..Len(bs) : bs[k].node = node

\* C1: however many requestReflow() calls (N >= 1) precede a frame, that frame
\* runs reflow() exactly once.
C1_Coalescing == served >= 1 => runs = 1

C1_Witness == served = MaxRequests /\ served >= 2 /\ runs = 1

\* C2: a requestReflow() made while reflow() runs leaves the dirty flag set at
\* the end of that frame, which ran reflow() once, and the next frame runs
\* reflow() exactly once.
C2_RequestDuringReflow ==
    [][/\ reqDuring' => (dirty' /\ invalidated' /\ runs' = 1)
       /\ (reqDuring /\ AnyTick) => runs' = 1]_vars

C2_Witness == reqDuring /\ dirty /\ runs = 1 /\ requests = 1

\* C3: registerBox(node, ...) returns true and appends one record when no
\* record has that node; otherwise it returns false, the number of records is
\* unchanged and the record of that node becomes the new arguments, every
\* other record staying as it was.
C3_RegistrationUpsert ==
    [][\A node \in NodeIds, group \in Groups, flexProps \in RegistryProps,
          centerAnchor \in BOOLEAN :
          RegisterBox(node, group, flexProps, centerAnchor) =>
            LET item == [node |-> node, group |-> group, flexProps |-> flexProps,
                         centerAnchor |-> centerAnchor]
            IN  IF Registered(boxes, node)
                THEN /\ call'.ret = "false"
                     /\ Len(boxes') = Len(boxes)
                     /\ \A k \in 1..Len(boxes) :
                          boxes'[k] = IF boxes[k].node = node THEN item ELSE boxes[k]
                ELSE /\ call'.ret = "true"
                     /\ Len(boxes') = Len(boxes) + 1
                     /\ boxes'[Len(boxes')] = item
                     /\ \A k \in 1..Len(boxes) : boxes'[k] = boxes[k]]_vars

C3_Witness ==
    /\ call.op = "registerBox" /\ call.ret = "false"
    /\ Len(boxes) = 2
    /\ boxes[1].group = "g2" /\ boxes[1].centerAnchor /\ boxes[1].flexProps.width = Pct(100)

\* C4: unregisterBox(node) removes the record of that node when there is one
\* and leaves every other record as it was; when there is none it changes
\* nothing: not the registry, not the dirty flag, not a position.
C4_Unregister ==
    [][\A node \in NodeIds :
          UnregisterBox(node) =>
            /\ dirty' = dirty /\ invalidated' = invalidated
            /\ position' = position /\ layout' = layout
            /\ nodeW' = nodeW /\ nodeH' = nodeH
            /\ IF Registered(boxes, node)
               THEN /\ ~Registered(boxes', node)
                    /\ Len(boxes') = Len(boxes) - 1
                    /\ \A k \in 1..Len(boxes) :
                         boxes[k].node # node =>
                           \E j \in 1..Len(boxes') : boxes'[j] = boxes[k]
               ELSE boxes' = boxes]_vars

C4_Witness ==
    /\ call.op = "unregisterBox" /\ ~call.found
    /\ Len(boxes) = 1 /\ ~dirty /\ position["g2"]["y"] # RZero

\* a state right after a frame that ran reflow() on the registry and props as
\* they are now
Reflowed == runs = 1 /\ stable >= 1
Explicit(b) == b.flexProps.width.t # "undef" /\ b.flexProps.height.t # "undef"
Expected(v) == IF v.t = "num" THEN [t |-> "num", v |-> v.v * cfg.scaleFactor] ELSE v
DepthOf(plane) ==
    CASE plane = <<"x", "y">> -> "z"
      [] plane = <<"y", "z">> -> "x"
      [] plane = <<"x", "z">> -> "y"
MaxOf(S) == CHOOSE m \in S : \A x \in S : x <= m
MinOf(S) == CHOOSE m \in S : \A x \in S : m <= x

\* C5: a second reflow() with no registration or props change since the
\* first, over the same content extents, writes the same solver sizes, layouts and positions and
\* reports the same totals.
C5_Idempotence ==
    [][(stable >= 1 /\ dirty /\ AnyTick) =>
          /\ nodeW' = nodeW /\ nodeH' = nodeH
          /\ layout' = layout
          /\ position' = position
          /\ cfg.hasOnReflow => reported' = reported]_vars

C5_Witness ==
    /\ stable = 2 /\ runs = 1 /\ Len(boxes) = 2 /\ measured = {"n1", "n2"}
    /\ cfg.hasOnReflow /\ position["g2"] # ZeroVector

C7_PlaneMapping ==
    Reflowed =>
      \A k \in 1..Len(boxes) :
        LET b == boxes[k]
            l == layout[b.node]
            pos == position[b.group]
        IN  /\ pos[DepthOf(cfg.plane)] = RZero
            /\ (~cfg.centerAnchor /\ ~b.centerAnchor) =>
                 /\ pos[cfg.plane[1]] = Rat(l.left, cfg.scaleFactor)
                 /\ pos[cfg.plane[2]] = RNeg(Rat(l.top, cfg.scaleFactor))
                 /\ (l.left = 0 /\ l.top = 0) => pos = ZeroVector
                 /\ \A j \in 1..Len(boxes) :
                      (~boxes[j].centerAnchor /\ l.top < layout[boxes[j].node].top) =>
                        RLess(position[boxes[j].group][cfg.plane[2]], pos[cfg.plane[2]])

C7_Witness ==
    /\ Reflowed /\ cfg.plane = <<"y", "z">> /\ ~cfg.centerAnchor /\ Len(boxes) = 2
    /\ ~boxes[1].centerAnchor /\ ~boxes[2].centerAnchor
    /\ layout["n1"].top = 0 /\ layout["n2"].top > 0
    /\ RLess(position["g2"]["z"], RZero) /\ position["g2"]["x"] = RZero

\* C8: with container centering and the box's centerAnchor, a box whose
\* computed layout is left = 0, top = 0 and the root's computed width and
\* height is written to (0, 0, 0); without container centering no shift is
\* applied on either axis.
C8_Centering ==
    Reflowed =>
      \A k \in 1..Len(boxes) :
        LET b == boxes[k]
            l == layout[b.node]
            pos == position[b.group]
        IN  /\ (/\ cfg.centerAnchor /\ b.centerAnchor
                /\ l.left = 0 /\ l.top = 0
                /\ l.width = layout[Root].width /\ l.height = layout[Root].height)
               => pos = ZeroVector
            /\ ~cfg.centerAnchor =>
                 /\ pos[cfg.plane[1]] =
                      Rat(2 * l.left + (IF b.centerAnchor THEN l.width ELSE 0),
                          2 * cfg.scaleFactor)
                 /\ pos[cfg.plane[2]] =
                      Rat(-(2 * l.top + (IF b.centerAnchor THEN l.height ELSE 0)),
                          2 * cfg.scaleFactor)

C8_Witness ==
    /\ Reflowed /\ cfg.centerAnchor /\ Len(boxes) = 1 /\ boxes[1].centerAnchor
    /\ layout["n1"] = [left |-> 0, top |-> 0, width |-> layout[Root].width,
                       height |-> layout[Root].height]
    /\ layout[Root].width > 0 /\ layout[Root].height > 0
    /\ position["g1"] = ZeroVector

\* C9: each reflow() calls the onReflow listener once, or does nothing without
\* one, with totalWidth = (max of left + width - min of left) / scaleFactor
\* and totalHeight = (max of top + height - min of top) / scaleFactor over the
\* registered boxes.
C9_Notification ==
    (Reflowed /\ Len(boxes) >= 1) =>
      LET L == {layout[boxes[k].node] : k \in 1..Len(boxes)}
      IN  /\ notified = IF cfg.hasOnReflow THEN 1 ELSE 0
          /\ cfg.hasOnReflow =>
               reported =
                 <<Rat(MaxOf({l.left + l.width : l \in L}) - MinOf({l.left : l \in L}),
                       cfg.scaleFactor),
                   Rat(MaxOf({l.top + l.height : l \in L}) - MinOf({l.top : l \in L}),
                       cfg.scaleFactor)>>

\* C10 as claimed: whenever the child set (the registered nodes, or the
\* children prop) or the container's flex props change, the dirty flag is set
\* and the host is asked for a frame.
C10_ChildSetChangeRequestsReflow ==
    [][(\/ {boxes[k].node : k \in 1..Len(boxes)} # {boxes'[k].node : k \in 1..Len(boxes')}
        \/ childrenKey' # childrenKey
        \/ cfg'.flexProps # cfg.flexProps)
       => (dirty' /\ invalidated')]_vars

\* C10 amended: whenever the container's children prop or its flex props
\* change, the dirty flag is set and the host is asked for a frame.
C10_RenderRequestsReflow ==
    [][(childrenKey' # childrenKey \/ cfg'.flexProps # cfg.flexProps)
       => (dirty' /\ invalidated')]_vars

C10_Witness ==
    /\ childrenKey = 1 /\ cfg.flexProps.padding = 0
    /\ served = 0 /\ runs = 0 /\ stable = 0 /\ layout[Root].width > 0
    /\ dirty /\ invalidated /\ requests = 1

\* C11: a frame that runs reflow() sizes and positions exactly the records
\* the registry holds when the frame starts, with the flexProps and
\* centerAnchor they then have, whatever registerBox or unregisterBox call the
\* onReflow listener makes while reflow() runs.
C11_Ordering ==
    [][(dirty /\ FrameStep) =>
         LET atStart == {boxes[k] : k \in 1..Len(boxes)}
         IN  /\ ~cfg.disableSizeRecalc =>
                  /\ measured' = {b.node : b \in {c \in atStart :
                                       ~Explicit(c) /\ Len(tree[c.node]) = 0}}
                  /\ \A b \in atStart :
                       Explicit(b) =>
                         /\ nodeW'[b.node] = Expected(b.flexProps.width)
                         /\ nodeH'[b.node] = Expected(b.flexProps.height)
                  /\ \A n \in NodeIds \ {b.node : b \in atStart} :
                       nodeW'[n] = nodeW[n] /\ nodeH'[n] = nodeH[n]
             /\ \A b \in atStart :
                  position'[b.group] =
                    BoxPosition(b, layout'[b.node], cfg, layout'[Root].width,
                                layout'[Root].height)
             /\ \A g \in Groups \ {b.group : b \in atStart} : position'[g] = position[g]]_vars

\* the listener registered n2 during the first reflow(), which measured and
\* positioned n1 alone
C11_Witness ==
    /\ call.during /\ call.op = "registerBox" /\ call.ret = "true"
    /\ runs = 1 /\ Len(boxes) = 2 /\ boxes[2].node = "n2"
    /\ measured = {"n1"} /\ nodeW["n2"] = Undef
    /\ position["g2"] = ZeroVector

\* the listener unregistered n1 during a reflow(), which still positioned it
C11_WitnessUnregister ==
    /\ call.during /\ call.op = "unregisterBox" /\ call.found
    /\ runs = 1 /\ ~Registered(boxes, "n1") /\ "n1" \in measured

\* the measured extent of a group along an axis, in solver units
Measured(group, axis) == [t |-> "num", v |-> extent[group][axis] * cfg.scaleFactor]
Leaf(b) == Len(tree[b.node]) = 0

\* C12 as claimed: with size recalculation enabled, reflow() sets the solver
\* node of every registered leaf box lacking an explicit width or an explicit
\* height to width = measured main-axis extent * scaleFactor and height =
\* measured cross-axis extent * scaleFactor.
C12_LeafSizeMeasured ==
    (Reflowed /\ ~cfg.disableSizeRecalc) =>
      \A k \in 1..Len(boxes) :
        (Leaf(boxes[k]) /\ ~Explicit(boxes[k])) =>
          /\ nodeW[boxes[k].node] = Measured(boxes[k].group, cfg.plane[1])
          /\ nodeH[boxes[k].node] = Measured(boxes[k].group, cfg.plane[2])

\* C12 amended: with size recalculation enabled, reflow() measures every
\* registered leaf box lacking an explicit width or an explicit height and
\* sets on its solver node each dimension that is undefined or 0 to the
\* measured extent (main axis for width, cross axis for height) times the
\* scale factor, and each other dimension to its explicit value, numbers
\* times the scale factor.
C12_LeafSizeInference ==
    (Reflowed /\ ~cfg.disableSizeRecalc) =>
      \A k \in 1..Len(boxes) :
        LET b == boxes[k]
            missing(v) == v.t = "undef" \/ (v.t = "num" /\ v.v = 0)
        IN  (Leaf(b) /\ ~Explicit(b)) =>
              /\ b.node \in measured
              /\ nodeW[b.node] = IF missing(b.flexProps.width)
                                 THEN Measured(b.group, cfg.plane[1])
                                 ELSE Expected(b.flexProps.width)
              /\ nodeH[b.node] = IF missing(b.flexProps.height)
                                 THEN Measured(b.group, cfg.plane[2])
                                 ELSE Expected(b.flexProps.height)

C12_Witness ==
    /\ Reflowed /\ ~cfg.disableSizeRecalc /\ cfg.plane = <<"y", "z">>
    /\ Len(boxes) = 2 /\ Leaf(boxes[1]) /\ Leaf(boxes[2])
    /\ boxes[1].flexProps = [width |-> Undef, height |-> Num(0)]
    /\ nodeW["n1"] = Num(2 * DefaultScaleFactor) /\ nodeH["n1"] = Num(DefaultScaleFactor)
    /\ nodeW["n2"] = Num(DefaultScaleFactor) /\ nodeH["n2"] = Num(2 * DefaultScaleFactor)

\* C13: reflow() never measures a registered box that has layout children and
\* lacks an explicit width or an explicit height, and its size pass writes no
\* width or height onto that box's solver node.
C13_ParentNotMeasured ==
    [][(dirty /\ FrameStep) =>
         \A k \in 1..Len(boxes) :
           (~Leaf(boxes[k]) /\ ~Explicit(boxes[k])) =>
             /\ boxes[k].node \notin measured'
             /\ nodeW'[boxes[k].node] = nodeW[boxes[k].node]
             /\ nodeH'[boxes[k].node] = nodeH[boxes[k].node]]_vars

C13_Witness ==
    /\ Reflowed /\ ~cfg.disableSizeRecalc /\ tree["n1"] = <<"n2">> /\ Len(boxes) = 2
    /\ boxes[1].flexProps = [width |-> Num(1), height |-> Undef]
    /\ measured = {"n2"} /\ nodeW["n1"] = Undef /\ nodeH["n1"] = Undef
    /\ layout["n1"].height = 2 * DefaultScaleFactor

\* C14: with disableSizeRecalc a reflow() measures nothing and leaves the
\* width and height of every solver node as they were, and still calls the
\* solver with the container's size, writes every registered box's position,
\* calls onReflow and invalidates.
C14_SizeRecalcDisabled ==
    [][(dirty /\ cfg.disableSizeRecalc /\ FrameStep) =>
         LET flex == <<cfg.size[cfg.plane[1]], cfg.size[cfg.plane[2]]>>
         IN  /\ measured' = {}
             /\ nodeW' = nodeW /\ nodeH' = nodeH
             /\ layout'[Root] = [left |-> 0, top |-> 0,
                                 width |-> flex[1] * cfg.scaleFactor,
                                 height |-> flex[2] * cfg.scaleFactor]
             /\ \A k \in 1..Len(boxes) :
                  position'[boxes[k].group] =
                    BoxPosition(boxes[k], layout'[boxes[k].node], cfg,
                                layout'[Root].width, layout'[Root].height)
             /\ notified' = (IF cfg.hasOnReflow THEN 1 ELSE 0)
             /\ invalidated']_vars

C14_Witness ==
    /\ Reflowed /\ cfg.disableSizeRecalc /\ cfg.hasOnReflow /\ cfg.flexProps.padding = 1
    /\ Len(boxes) = 2 /\ ~Explicit(boxes[1])
    /\ measured = {} /\ nodeW = [n \in NodeIds |-> Undef] /\ nodeH = [n \in NodeIds |-> Undef]
    /\ layout[Root].width > 0 /\ position["g1"] # ZeroVector /\ notified = 1

\* C15: the registry never holds two records of one node; it starts empty, a
\* registerBox(node) leaves node registered, an unregisterBox(node) leaves it
\* unregistered, and neither changes whether any other node is registered.
C15_RegistryUniqueness ==
    /\ [](/\ \A j, k \in 1..Len(boxes) : boxes[j].node = boxes[k].node => j = k
          /\ call.op = "none" => boxes = <<>>)
    /\ [][\A node \in NodeIds :
            /\ (\E group \in Groups, flexProps \in RegistryProps, centerAnchor \in BOOLEAN :
                  RegisterBox(node, group, flexProps, centerAnchor))
               => /\ Registered(boxes', node)
                  /\ \A other \in NodeIds \ {node} :
                       Registered(boxes', other) <=> Registered(boxes, other)
            /\ UnregisterBox(node)
               => /\ ~Registered(boxes', node)
                  /\ \A other \in NodeIds \ {node} :
                       Registered(boxes', other) <=> Registered(boxes, other)]_vars

\* n1 was registered before n2 and then unregistered
C15_Witness ==
    /\ call.op = "unregisterBox" /\ call.found
    /\ Len(boxes) = 1 /\ boxes[1].node = "n2" /\ ~Registered(boxes, "n1")

\* C16: reflow() visits the records in registry order, and that order is the
\* order of the inserting registrations: a registerBox of a new node puts it
\* last, a registerBox of a registered node leaves the order as it is, and an
\* unregisterBox takes its node out and leaves the others in their order.
C16_StableOrder ==
    [][\A node \in OrderNodes :
         LET others(n) == n # node
         IN  /\ (\E a \in SpecArgs :
                   RegisterBox(node, GroupOf(node), a.flexProps, a.centerAnchor))
                => VisitOrder(boxes') = IF Registered(boxes, node)
                                        THEN VisitOrder(boxes)
                                        ELSE Append(VisitOrder(boxes), node)
             /\ UnregisterBox(node)
                => VisitOrder(boxes') = SelectSeq(VisitOrder(boxes), others)]_vars

\* of three records the first was unregistered, the other two keep their order
C16_Witness ==
    /\ call.op = "unregisterBox" /\ call.found
    /\ VisitOrder(boxes) = <<"n3", "n1">> /\ boxes[1].centerAnchor /\ ~boxes[2].centerAnchor

\* C17: a step changes a group's position or a solver node's width, height or
\* computed layout only if it is a frame that starts with the dirty flag set;
\* a registerBox or unregisterBox outside a frame changes only the registry,
\* and a requestReflow() only the dirty flag and the host's frame request.
C17_OnlyReflowWrites ==
    [][/\ (position' # position \/ nodeW' # nodeW \/ nodeH' # nodeH \/ layout' # layout)
          => (dirty /\ FrameStep)
       /\ (~FrameStep /\ (boxes' # boxes \/ call' # call))
          => UNCHANGED <<dirty, invalidated, requests, cfg, childrenKey, tree, nodeW, nodeH,
                         layout, position, reported>>
       /\ (requests' = requests + 1 /\ cfg' = cfg /\ childrenKey' = childrenKey)
          => /\ dirty' /\ invalidated'
             /\ UNCHANGED <<boxes, cfg, tree, nodeW, nodeH, layout, position, reported>>]_vars

\* a box was registered after a reflow(), the positions staying as written
C17_Witness ==
    /\ call.op = "registerBox" /\ ~call.during /\ call.ret = "true"
    /\ ~dirty /\ stable = 0 /\ runs = 1
    /\ Len(boxes) = 2 /\ position["g1"] # ZeroVector /\ position["g2"] = ZeroVector

\* C18: a frame runs reflow() exactly when the dirty flag is set when it
\* starts; a frame that runs reflow() leaves the flag clear unless
\* requestReflow() was called meanwhile, although reflow() asks the host for
\* another frame; and only a requestReflow() call sets the flag.
C18_NoSpuriousReflow ==
    [][/\ FrameStep =>
            /\ runs' = (IF dirty THEN 1 ELSE 0)
            /\ ~dirty => /\ notified' = 0
                         /\ UNCHANGED <<nodeW, nodeH, layout, position, reported>>
            /\ (dirty /\ ~reqDuring') => (~dirty' /\ invalidated')
       /\ (~dirty /\ dirty') => requests' = requests + 1]_vars

\* the frame that reflow() asked for came and did not run reflow() again
C18_Witness ==
    /\ stable >= 1 /\ runs = 0 /\ served = 0 /\ ~dirty /\ ~invalidated
    /\ Len(boxes) = 2 /\ position["g2"] # ZeroVector

\* C19: the container starts dirty with a frame asked for, and under a host
\* that delivers the frames it is asked for no request stays unserved: either
\* the dirty flag is clear again and again (only a frame that runs reflow()
\* clears it), or frames that run reflow() keep coming.
C19_NoLostRequest ==
    /\ dirty = TRUE /\ invalidated = TRUE
    /\ []<>(~dirty) \/ []<><<dirty /\ FrameStep>>_vars

\* a requestReflow() made after the first reflow() was served by a second one
C19_Witness ==
    /\ ~dirty /\ invalidated /\ stable = 2 /\ runs = 1 /\ served = 1
    /\ Len(boxes) = 1 /\ position["g1"] # ZeroVector

====
